---- MODULE Spec2Model ----
(***************************************************************************)
(* Model of the Lolalytics scraper: the field mapper (parse_element), the  *)
(* text/number extraction helpers of PlaywrightBrowser, and the scrolling  *)
(* section extractor (parse_common_section).                               *)
(*                                                                         *)
(* Python values are tagged records: None, str (a tuple of one-character   *)
(* strings), float (mantissa m and number of fractional digits e, without  *)
(* trailing zeros), a schema instance, or a raised exception.              *)
(***************************************************************************)
EXTENDS Integers, Sequences, FiniteSets, TLC

\* ------------------------------------------------------------------ values

NoneV == [t |-> "None"]
Str(s) == [t |-> "str", s |-> s]
Num(m, e) == [t |-> "float", m |-> m, e |-> e]
Exc(k) == [t |-> "exc", k |-> k]

IsExc(v) == v.t = "exc"
IsNone(v) == v.t = "None"

Digits == {"0", "1", "2", "3", "4", "5", "6", "7", "8", "9"}

DigitVal(c) ==
    CASE c = "0" -> 0 [] c = "1" -> 1 [] c = "2" -> 2 [] c = "3" -> 3
      [] c = "4" -> 4 [] c = "5" -> 5 [] c = "6" -> 6 [] c = "7" -> 7
      [] c = "8" -> 8 [] c = "9" -> 9

\* str.strip(): leading and trailing blanks removed.
RECURSIVE LStrip(_)
LStrip(s) == IF s # <<>> /\ Head(s) = " " THEN LStrip(Tail(s)) ELSE s

RECURSIVE RStrip(_)
RStrip(s) ==
    IF s # <<>> /\ s[Len(s)] = " " THEN RStrip(SubSeq(s, 1, Len(s) - 1)) ELSE s

Strip(s) == RStrip(LStrip(s))

\* s[n:] of a str.
SliceFrom(s, n) == SubSeq(s, n + 1, Len(s))

\* Value of a run of digits, most significant first.
RECURSIVE DigitsValue(_)
DigitsValue(s) ==
    IF s = <<>> THEN 0
    ELSE 10 * DigitsValue(SubSeq(s, 1, Len(s) - 1)) + DigitVal(s[Len(s)])

AllDigits(s) == \A k \in 1..Len(s) : s[k] \in Digits

RECURSIVE Normalize(_, _)
Normalize(m, e) ==
    IF e > 0 /\ m % 10 = 0 THEN Normalize(m \div 10, e - 1) ELSE Num(m, e)

\* Position of the first "." in s, or 0.
DotPos(s) ==
    IF \E k \in 1..Len(s) : s[k] = "."
    THEN CHOOSE k \in 1..Len(s) : s[k] = "." /\ \A j \in 1..(k - 1) : s[j] # "."
    ELSE 0

\* float(str): blanks stripped, optional sign, digits with at most one ".",
\* at least one digit; anything else raises ValueError.
PyFloat(s) ==
    LET b == Strip(s)
        neg == b # <<>> /\ Head(b) = "-"
        u == IF b # <<>> /\ Head(b) \in {"-", "+"} THEN Tail(b) ELSE b
        d == DotPos(u)
        ip == IF d = 0 THEN u ELSE SubSeq(u, 1, d - 1)
        fp == IF d = 0 THEN <<>> ELSE SubSeq(u, d + 1, Len(u))
        mag == DigitsValue(ip \o fp)
    IN  IF AllDigits(ip) /\ AllDigits(fp) /\ ip \o fp # <<>>
        THEN Normalize(IF neg THEN 0 - mag ELSE mag, Len(fp))
        ELSE Exc("ValueError")

\* ------------------------------------------------- PlaywrightBrowser helpers

\* An element of the page: anchor is what its first <a> carries ("noanchor":
\* no <a> at all, "nohref": an <a> without href, else the href as a str);
\* text maps every selector that matches inside the element to the text
\* content of the match.
QuerySelector(parent, selector) ==
    IF selector \in DOMAIN parent.text THEN Str(parent.text[selector]) ELSE NoneV

\* extract_text: stripped text of the match, None when nothing matches.
extract_text(selector, parent) ==
    LET element == QuerySelector(parent, selector)
    IN  IF IsNone(element) THEN NoneV ELSE Str(Strip(element.s))

\* ''.join(c for c in text if c.isdigit() or c in '.-')
Cleaned(s) == SelectSeq(s, LAMBDA c : c \in Digits \cup {".", "-"})

\* extract_number: float of the cleaned text; None for no text, an empty
\* residue, or a residue float() rejects (the except branch).
extract_number(selector, parent) ==
    LET text == extract_text(selector, parent)
    IN  IF IsNone(text) \/ text.s = <<>> THEN NoneV
        ELSE LET cleaned == Cleaned(text.s)
                 f == PyFloat(cleaned)
             IN  IF cleaned = <<>> THEN NoneV
                 ELSE IF IsExc(f) THEN NoneV ELSE f

\* ------------------------------------------------------------------ schemas

MetaChampion ==
    [name |-> "MetaChampion",
     types |-> [name |-> "str", tier |-> "str", lane |-> "str", win |-> "float",
                pick |-> "float", ban |-> "float", games |-> "int"]]

CounterCard ==
    [name |-> "CounterCard",
     types |-> [champion |-> "str", wr_against |-> "float", delta_1 |-> "float",
                delta_2 |-> "float", avg_wr_against |-> "float", games |-> "int"]]

CounterCardV2 ==
    [name |-> "CounterCardV2",
     types |-> [champion |-> "str", wr |-> "float", delta_1 |-> "float",
                delta_2 |-> "float", pr |-> "float", games |-> "int"]]

\* Validation of one Optional[...] field of a BaseModel: None is kept, a str
\* field takes only a str, a float field a float or a numeric str, an int
\* field a number (or numeric str) without a fractional part.
Coerce(type, v) ==
    IF IsNone(v) THEN v
    ELSE IF type = "str"
         THEN IF v.t = "str" THEN v ELSE Exc("ValidationError")
    ELSE LET f == IF v.t = "float" THEN v
                  ELSE IF v.t = "str" THEN PyFloat(v.s) ELSE Exc("ValidationError")
         IN  IF IsExc(f) THEN Exc("ValidationError")
             ELSE IF type = "float" THEN f
             ELSE IF f.e # 0 THEN Exc("ValidationError")
             ELSE [t |-> "int", m |-> f.m]

\* schema_cls(**values): every declared field validated, undeclared keys
\* ignored, fields not passed left at their default None.
Construct(schema_cls, values) ==
    LET vals == [n \in DOMAIN schema_cls.types |->
                    IF n \in DOMAIN values
                    THEN Coerce(schema_cls.types[n], values[n]) ELSE NoneV]
    IN  IF \E n \in DOMAIN vals : IsExc(vals[n]) THEN Exc("ValidationError")
        ELSE [t |-> "rec", cls |-> schema_cls.name, v |-> vals]

\* --------------------------------------------------------------- field mapper

\* A field spec (selector, value_type, transform) under its field name. A
\* selector of None is the empty str (both are falsy), a value_type of None
\* is "None". Transforms: "none" (no transform), "float_s2" for
\* lambda s: float(s[2:]), "const" for lambda _: champ.
Field(name, selector, kind, transform) ==
    [name |-> name, selector |-> selector, kind |-> kind, transform |-> transform]

TrNone == [f |-> "none"]
TrFloatS2 == [f |-> "float_s2"]
TrConst(v) == [f |-> "const", v |-> v]
\* A transform that is not idempotent: lambda v: "x" + (v or "")
TrPrefix == [f |-> "prefix"]

Apply(transform, v) ==
    CASE transform.f = "const" -> transform.v
      [] transform.f = "float_s2" ->
            IF v.t = "str" THEN PyFloat(SliceFrom(v.s, 2)) ELSE Exc("TypeError")
      [] transform.f = "prefix" ->
            IF v.t = "str" THEN Str(<<"x">> \o v.s)
            ELSE IF IsNone(v) THEN Str(<<"x">>)
            ELSE Exc("TypeError")

\* The body of parse_element's loop for one field.
ResolveField(element, fs) ==
    LET has == fs.transform.f # "none"
        raw == IF fs.selector = ""
               THEN IF has THEN Apply(fs.transform, NoneV) ELSE NoneV
               ELSE IF fs.kind = "text" THEN extract_text(fs.selector, element)
               ELSE IF fs.kind = "number" THEN extract_number(fs.selector, element)
               ELSE Exc("ValueError")
    IN  IF IsExc(raw) THEN raw
        ELSE IF has THEN Apply(fs.transform, raw) ELSE raw

\* dict semantics of a field table kept as a sequence: fields[name] = spec.
DictSet(fields, fs) ==
    IF \E k \in 1..Len(fields) : fields[k].name = fs.name
    THEN [k \in 1..Len(fields) |-> IF fields[k].name = fs.name THEN fs ELSE fields[k]]
    ELSE Append(fields, fs)

FieldNames(fields) == {fields[k].name : k \in 1..Len(fields)}

FieldOf(fields, n) == fields[CHOOSE k \in 1..Len(fields) : fields[k].name = n]

\* parse_element with the try/except around each field instead of around the
\* whole body: a faulting field is left out and the record still built.
parse_element_PerField(element, schema_cls, fields) ==
    LET values == [n \in FieldNames(fields) |-> ResolveField(element, FieldOf(fields, n))]
        kept == [n \in {o \in DOMAIN values : ~IsExc(values[o])} |-> values[n]]
        obj == Construct(schema_cls, kept)
    IN  IF IsExc(obj) THEN NoneV ELSE obj

\* parse_element: all fields resolved in table order, then the schema built;
\* any exception on the way is logged and None returned.
parse_element(element, schema_cls, fields) ==
    LET values == [n \in FieldNames(fields) |-> ResolveField(element, FieldOf(fields, n))]
    IN  IF \E n \in DOMAIN values : IsExc(values[n]) THEN NoneV
        ELSE LET obj == Construct(schema_cls, values)
             IN  IF IsExc(obj) THEN NoneV ELSE obj

\* ---------------------------------------------------------------- site tables

\* fields of parse_meta_stats
MetaFields ==
    << Field("name", "div:nth-of-type(3)", "text", TrNone),
       Field("tier", "div:nth-of-type(4)", "text", TrNone),
       Field("lane", "div:nth-of-type(5)", "text", TrNone),
       Field("win", "div:nth-child(6) > div > span:nth-child(1)", "number", TrNone),
       Field("pick", "div:nth-of-type(7)", "number", TrNone),
       Field("ban", "div:nth-of-type(8)", "number", TrNone),
       Field("games", "div:nth-of-type(10)", "number", TrNone) >>

\* fields of parse_counters_stats
CountersFields ==
    << Field("champion", "div > a > div > div:nth-of-type(1)", "text", TrNone),
       Field("wr_against", "div > a > div > div:nth-of-type(2)", "number", TrNone),
       Field("delta_1", "div > a > div > div:nth-of-type(3) > span:nth-of-type(1)",
             "text", TrFloatS2),
       Field("delta_2", "div > a > div > div:nth-of-type(3) > span:nth-of-type(2)",
             "text", TrFloatS2),
       Field("avg_wr_against", "div > a > div > div:nth-of-type(4)", "number", TrNone),
       Field("games", "div > a > div > div:nth-of-type(5)", "number", TrNone) >>

\* counter_fields of parse_champion_build
BuildFields ==
    << Field("wr", "div.my-1:nth-child(2)", "text", TrNone),
       Field("delta_1", "div.my-1:nth-child(3)", "text", TrNone),
       Field("delta_2", "div.my-1:nth-child(4)", "text", TrNone),
       Field("pr", "div.my-1:nth-child(5)", "text", TrNone),
       Field("games", "div.text-[9px].text-[#bbb]", "text", TrNone) >>

\* ---------------------------------------------------------------- identity key

Lowers == <<"a", "b", "c", "d", "e", "f", "g", "h", "i", "j", "k", "l", "m", "n", "o", "p", "q", "r", "s", "t", "u", "v", "w", "x", "y", "z">>
Uppers == <<"A", "B", "C", "D", "E", "F", "G", "H", "I", "J", "K", "L", "M", "N", "O", "P", "Q", "R", "S", "T", "U", "V", "W", "X", "Y", "Z">>

IndexIn(c, alphabet) ==
    IF \E k \in 1..Len(alphabet) : alphabet[k] = c
    THEN CHOOSE k \in 1..Len(alphabet) : alphabet[k] = c ELSE 0

ToUpper(c) == IF IndexIn(c, Lowers) # 0 THEN Uppers[IndexIn(c, Lowers)] ELSE c
ToLower(c) == IF IndexIn(c, Uppers) # 0 THEN Lowers[IndexIn(c, Uppers)] ELSE c

\* str.capitalize(): first character upper case, the rest lower case.
Capitalize(s) ==
    [k \in 1..Len(s) |-> IF k = 1 THEN ToUpper(s[k]) ELSE ToLower(s[k])]

\* str.split(sep) for a one-character separator: the pieces between
\* separators, empty pieces included.
RECURSIVE SplitAcc(_, _, _)
SplitAcc(s, sep, cur) ==
    IF s = <<>> THEN <<cur>>
    ELSE IF Head(s) = sep THEN <<cur>> \o SplitAcc(Tail(s), sep, <<>>)
    ELSE SplitAcc(Tail(s), sep, Append(cur, Head(s)))

Split(s, sep) == SplitAcc(s, sep, <<>>)

\* link.split("/")[n]
Segment(link, n) ==
    IF link.t # "str" THEN Exc("AttributeError")
    ELSE LET parts == Split(link.s, "/")
         IN  IF n + 1 > Len(parts) THEN Exc("IndexError") ELSE Str(parts[n + 1])

\* Lines 135-138: the href of the card's first <a>, and the champion name
\* taken from it according to the flag.
IdentityKey(card, flag) ==
    IF ~card.hasA THEN Exc("AttributeError")
    ELSE LET link == card.href
             seg == IF flag = "teammates" THEN Segment(link, 2)
                    ELSE IF flag = "matchup" THEN Segment(link, 4)
                    ELSE NoneV
         IN  IF seg.t = "str" THEN Str(Capitalize(seg.s)) ELSE seg

\* ------------------------------------------------------------------ the page

\* Bounds of the model.
MaxCards == 3
MaxIter == 5

\* Program constants: the 100 px taken off clientWidth for one scroll step
\* and the 5 px slack of the end-of-scroll test.
StepMargin == 100
EndSlack == 5

\* Geometry of the rendered strip: every card is CardWidth wide, the
\* container shows clientWidth pixels of it.
CardWidth == 100
Viewports == {90, 100, 150, 200}

Labels == <<"top", "jungle">>
CardKinds == {"A", "B", "C", "Bx", "NoA", "Short"}
Flags == {"matchup", "teammates"}

RECURSIVE Join(_)
Join(parts) ==
    IF Len(parts) = 1 THEN parts[1] ELSE parts[1] \o <<"/">> \o Join(Tail(parts))

ChampName(kind) ==
    CASE kind = "A" -> <<"a", "h", "r", "i">>
      [] kind = "B" -> <<"b", "r", "a", "n", "d">>
      [] kind = "C" -> <<"c", "o", "r", "k", "i">>
      [] kind = "Bx" -> <<"B", "R", "A", "N", "D">>
      [] OTHER -> <<>>

\* The href a card of the given data set carries: /lol/jax/vs/<name>/build/
\* among the matchups, /lol/<name>/build/ among the teammates; the "Short"
\* card carries /lol.
CardHref(kind, dataset) ==
    IF kind = "Short" THEN Str(Join(<< <<>>, <<"l", "o", "l">> >>))
    ELSE IF dataset = "matchup"
         THEN Str(Join(<< <<>>, <<"l", "o", "l">>, <<"j", "a", "x">>, <<"v", "s">>, ChampName(kind), <<"b", "u", "i", "l", "d">>, <<>> >>))
         ELSE Str(Join(<< <<>>, <<"l", "o", "l">>, ChampName(kind), <<"b", "u", "i", "l", "d">>, <<>> >>))

GoodText ==
    ("div.my-1:nth-child(2)" :> <<" ", "5", "1", ".", "5", " ">>) @@ ("div.my-1:nth-child(3)" :> <<"1", ".", "5">>)
    @@ ("div.my-1:nth-child(4)" :> <<"-", "2">>) @@ ("div.my-1:nth-child(5)" :> <<"4", ".", "1">>)
    @@ ("div.text-[9px].text-[#bbb]" :> <<"1", "2">>)

\* The "Bx" card shows its win rate as 51.5%, which the schema rejects.
BadText == ("div.my-1:nth-child(2)" :> <<"5", "1", ".", "5", "%">>) @@ GoodText

\* The element behind a card of the strip. "NoA" has no <a> at all.
CardElement(kind, dataset) ==
    [hasA |-> kind # "NoA",
     href |-> CardHref(kind, dataset),
     text |-> IF kind = "Bx" THEN BadText ELSE GoodText]

Max(a, b) == IF a >= b THEN a ELSE b
Min(a, b) == IF a <= b THEN a ELSE b

\* el.scrollWidth of a lane's container.
ScrollWidth(lane, cw) == Max(cw, CardWidth * Len(lane.cards))

\* The cards of the lane rendered at a scroll offset: those that intersect
\* the viewport, left to right (line 132).
Visible(lane, cw, offset) ==
    SelectSeq([k \in 1..Len(lane.cards) |-> k],
              LAMBDA k : (k - 1) * CardWidth < offset + cw /\ k * CardWidth > offset)

\* el.scrollLeft += (el.clientWidth - 100), clamped by the browser to
\* [0, scrollWidth - clientWidth] (line 131).
ScrollBy(lane, cw, offset) ==
    Max(0, Min(offset + (cw - StepMargin), ScrollWidth(lane, cw) - cw))

\* IsExhausted comparing against the strip less one more card.
IsExhausted_CardEarly(lane, cw, offset) ==
    offset + cw >= ScrollWidth(lane, cw) - EndSlack - CardWidth

\* el.scrollLeft + el.clientWidth >= el.scrollWidth - 5 (line 147).
IsExhausted(lane, cw, offset) == offset + cw >= ScrollWidth(lane, cw) - EndSlack

\* --------------------------------------------------------------------- state

VARIABLES
    flag,            \* parse_common_section's flag argument
    counter_fields,  \* the caller's field table, passed by reference
    lanes,           \* the page: one record per scroll container / position img
    clientWidth,     \* el.clientWidth of the scroll containers
    scrollLeft,      \* el.scrollLeft of every scroll container
    pc,              \* where parse_common_section stands
    exc,             \* the exception that left parse_common_section, or "none"
    i,               \* the for loop's index
    curr_lane,       \* label of the lane being extracted
    seen_champions,  \* identity keys seen in this lane
    counters,        \* the lane's result so far
    cards,           \* the snapshot being walked (indices into the lane's cards)
    ci,              \* position of the card loop in the snapshot
    common_data,     \* the section's result
    iters,           \* history: snapshots taken in this lane, counted up to MaxIter
    windows,         \* history: per lane, the snapshots the page returned
    mapped,          \* history: per lane, the keys handed to parse_element
    row_schema,      \* row loops of parse_meta_stats / parse_counters_stats: schema
    row_fields,      \* ... their field table (fields)
    rows,            \* ... the elements query_selector_all returned
    ri,              \* ... position of the loop in rows
    stat,            \* ... what parse_element returned for the last row
    stats,           \* ... the list the loop fills (champions / counters)
    mpc,             \* ... where the row loop stands
    bpc,             \* where parse_champion_build (or a caller of the extractor) stands
    dataset,         \* the page: per lane, the data set its cards are rendered from
    has_tab,         \* the page: the teammates tab button exists
    objective_rows,  \* the page: number of td cells of each objectives table row
    page,            \* self.page: "none", "open" or "closed"
    old_check,       \* text of the watched card before the tab click
    common_matchup,  \* what the first extractor call returned
    common_teammates,\* what the second extractor call returned
    objectives,      \* the objectives dict, as the sequence of its rows
    build_result,    \* what parse_champion_build returned
    max_scrolls,     \* auto_scroll's max_scrolls argument
    scrolls,         \* auto_scroll: wheel steps issued so far
    scrollTop,       \* the page: vertical scroll offset of the document
    pageHeight,      \* the page: height of the document
    spc,             \* where auto_scroll stands
    ppc,             \* where DeepLOLParser.parse_player_stats stands
    player_url,      \* its url argument
    self_attrs,      \* the DeepLOLParser instance's result attributes
    assigned,        \* history: the attributes assigned during the current call
    player_page,     \* DeepLOLParser.page: "none", "open" or "closed"
    player_result,   \* what parse_player_stats returned
    pcalls,          \* parse_player_stats calls made on the instance
    lpc,             \* where the LolalyticsParser session (main) stands
    method,          \* the parse_* method being run
    opened,          \* every page opened so far: its opener and its close() calls
    self_page,       \* LolalyticsParser.page: 0 for None, else an index of opened
    browser_page,    \* PlaywrightBrowser.page: 0 for None, else an index of opened
    life_result,     \* what the parse_* call returned
    lcalls           \* parse_* calls made on the parser

sectionVars == <<flag, counter_fields, lanes, clientWidth, scrollLeft, pc, exc, i,
                 curr_lane, seen_champions, counters, cards, ci, common_data, iters,
                 windows, mapped>>

rowVars == <<row_schema, row_fields, rows, ri, stat, stats, mpc>>

buildVars == <<bpc, dataset, has_tab, objective_rows, page, old_check, common_matchup,
               common_teammates, objectives, build_result>>

wheelVars == <<max_scrolls, scrolls, scrollTop, pageHeight, spc>>

playerVars == <<ppc, player_url, self_attrs, assigned, player_page, player_result,
                pcalls>>

lifeVars == <<lpc, method, opened, self_page, browser_page, life_result, lcalls>>

sessionVars == <<playerVars, lifeVars>>

vars == <<sectionVars, rowVars, buildVars, wheelVars, sessionVars>>

\* Sequences over S of length at most n.
SeqsUpTo(S, n) == UNION {[1..k -> S] : k \in 0..n}

\* Pages of up to Len(Labels) lanes holding at most n cards of the given
\* kinds between them.
PagesOf(kinds, n) ==
    {<<>>} \cup
    UNION {
        {[k \in 1..m |->
             SubSeq(strip, (IF k = 1 THEN 0 ELSE cut[k - 1]) + 1,
                           IF k = m THEN Len(strip) ELSE cut[k])] :
            cut \in {c \in [1..(m - 1) -> 0..Len(strip)] :
                        \A k \in 1..(m - 2) : c[k] <= c[k + 1]}} :
        strip \in SeqsUpTo(kinds, n), m \in 1..Len(Labels)}

\* The pages the extractor is run on.
Pages == PagesOf(CardKinds, MaxCards)

\* No row loop is running.
RowsIdle ==
    /\ row_schema = CounterCardV2
    /\ row_fields = <<>>
    /\ rows = <<>>
    /\ ri = 1
    /\ stat = NoneV
    /\ stats = <<>>
    /\ mpc = "idle"

\* parse_champion_build is not running: the extractor is called on its own.
BuildIdle ==
    /\ bpc = "idle"
    /\ has_tab = TRUE
    /\ objective_rows = <<>>
    /\ page = "open"
    /\ old_check = NoneV
    /\ common_matchup = <<>>
    /\ common_teammates = <<>>
    /\ objectives = <<>>
    /\ build_result = NoneV

\* auto_scroll is not running.
WheelIdle ==
    /\ max_scrolls = 0
    /\ scrolls = 0
    /\ scrollTop = 0
    /\ pageHeight = 0
    /\ spc = "idle"

\* An attribute the instance does not have (reading it raises AttributeError).
Unset == [t |-> "unset"]

\* The result attributes DeepLOLParser keeps on the instance.
Attrs == {"nickname", "current_rank_solo", "current_rank_flex", "champions_solo",
          "champions_flex"}

\* No DeepLOLParser is in use.
PlayerIdle ==
    /\ ppc = "idle"
    /\ player_url = ""
    /\ self_attrs = [a \in Attrs |-> Unset]
    /\ assigned = {}
    /\ player_page = "none"
    /\ player_result = NoneV
    /\ pcalls = 0

\* No parser session (setup, parse_* calls, close) is being followed.
LifeIdle ==
    /\ lpc = "idle"
    /\ method = ""
    /\ opened = <<>>
    /\ self_page = 0
    /\ browser_page = 0
    /\ life_result = NoneV
    /\ lcalls = 0

SessionIdle == PlayerIdle /\ LifeIdle

Init ==
    /\ flag \in Flags
    /\ counter_fields = BuildFields
    /\ \E p \in Pages :
          lanes = [k \in 1..Len(p) |-> [label |-> Labels[k], cards |-> p[k]]]
    /\ clientWidth \in Viewports
    /\ scrollLeft = [k \in 1..Len(lanes) |-> 0]
    /\ pc = "wait"
    /\ exc = "none"
    /\ i = 0
    /\ curr_lane = ""
    /\ seen_champions = {}
    /\ counters = <<>>
    /\ cards = <<>>
    /\ ci = 1
    /\ common_data = <<>>
    /\ iters = 0
    /\ windows = [k \in 1..Len(lanes) |-> <<>>]
    /\ mapped = [k \in 1..Len(lanes) |-> <<>>]
    /\ RowsIdle
    /\ BuildIdle
    /\ dataset = [k \in 1..Len(lanes) |-> flag]
    /\ WheelIdle
    /\ SessionIdle

Lane == lanes[i + 1]

\* The element and the identity key of the card the card loop stands on.
Card == CardElement(Lane.cards[cards[ci]], dataset[i + 1])
Champ == IdentityKey(Card, flag)

\* --------------------------------------------------- parse_common_section

\* Lines 119-123: wait for a scroll container (times out when the page has
\* none), collect containers and position images.
WaitForSelector ==
    /\ pc = "wait"
    /\ IF Len(lanes) = 0
       THEN pc' = "raised" /\ exc' = "TimeoutError"
       ELSE pc' = "for" /\ exc' = exc
    /\ UNCHANGED <<rowVars, buildVars, wheelVars, sessionVars>>
    /\ UNCHANGED <<flag, counter_fields, lanes, clientWidth, scrollLeft, i, curr_lane,
                   seen_champions, counters, cards, ci, common_data, iters, windows,
                   mapped>>

\* NewSeen carrying the keys of the lanes before over.
NewSeen_Carry(seen) == seen

\* Line 127: seen_champions = set()
NewSeen(seen) == {}

\* Lines 125-128: next lane, its label, a fresh seen-set and result.
StartLane ==
    /\ pc = "for"
    /\ i < Len(lanes)
    /\ curr_lane' = Lane.label
    /\ seen_champions' = NewSeen(seen_champions)
    /\ counters' = <<>>
    /\ iters' = 0
    /\ pc' = "scroll"
    /\ UNCHANGED <<rowVars, buildVars, wheelVars, sessionVars>>
    /\ UNCHANGED <<flag, counter_fields, lanes, clientWidth, scrollLeft, exc, i, cards,
                   ci, common_data, windows, mapped>>

\* Line 131: scroll the lane's container by clientWidth - 100.
Scroll ==
    /\ pc = "scroll"
    /\ scrollLeft' = [scrollLeft EXCEPT ![i + 1] = ScrollBy(Lane, clientWidth, @)]
    /\ pc' = "query"
    /\ UNCHANGED <<rowVars, buildVars, wheelVars, sessionVars>>
    /\ UNCHANGED <<flag, counter_fields, lanes, clientWidth, exc, i, curr_lane,
                   seen_champions, counters, cards, ci, common_data, iters, windows,
                   mapped>>

\* Line 132: the cards now rendered in the lane.
QueryCards ==
    /\ pc = "query"
    /\ cards' = Visible(Lane, clientWidth, scrollLeft[i + 1])
    /\ ci' = 1
    /\ iters' = Min(iters + 1, MaxIter)
    /\ windows' = IF iters < MaxIter
                  THEN [windows EXCEPT ![i + 1] = Append(@, cards')]
                  ELSE windows
    /\ pc' = "card"
    /\ UNCHANGED <<rowVars, buildVars, wheelVars, sessionVars>>
    /\ UNCHANGED <<flag, counter_fields, lanes, clientWidth, scrollLeft, exc, i,
                   curr_lane, seen_champions, counters, common_data, mapped>>

\* Lines 135-138 raising: no <a>, no href, or too few path segments. The
\* exception leaves parse_common_section.
CardFault ==
    /\ pc = "card"
    /\ ci <= Len(cards)
    /\ IsExc(Champ)
    /\ exc' = Champ.k
    /\ pc' = "raised"
    /\ UNCHANGED <<rowVars, buildVars, wheelVars, sessionVars>>
    /\ UNCHANGED <<flag, counter_fields, lanes, clientWidth, scrollLeft, i, curr_lane,
                   seen_champions, counters, cards, ci, common_data, iters, windows,
                   mapped>>

\* Line 140: a key already seen in this lane is skipped.
CardSeen ==
    /\ pc = "card"
    /\ ci <= Len(cards)
    /\ ~IsExc(Champ)
    /\ Champ \in seen_champions
    /\ ci' = ci + 1
    /\ UNCHANGED <<rowVars, buildVars, wheelVars, sessionVars>>
    /\ UNCHANGED <<flag, counter_fields, lanes, clientWidth, scrollLeft, pc, exc, i,
                   curr_lane, seen_champions, counters, cards, common_data, iters,
                   windows, mapped>>

\* Line 143: counter_fields['champion'] = (None, None, lambda _: champ)
WithChampion(fields, champ) == DictSet(fields, Field("champion", "", "None", TrConst(champ)))

\* MarkSeen with the add left out.
MarkSeen_Forget(seen, champ) == seen

\* Line 142: seen_champions.add(champ)
MarkSeen(seen, champ) == seen \cup {champ}

\* AppendParsed inserting at the front.
AppendParsed_Front(result, parsed) == <<parsed>> \o result

\* Line 145: counters.append(parsed)
AppendParsed(result, parsed) == Append(result, parsed)

\* Lines 142-145: a new key is marked seen, injected into the field table,
\* the card mapped and the outcome appended.
CardMap ==
    /\ pc = "card"
    /\ ci <= Len(cards)
    /\ ~IsExc(Champ)
    /\ Champ \notin seen_champions
    /\ seen_champions' = MarkSeen(seen_champions, Champ)
    /\ LET fields == WithChampion(counter_fields, Champ)
       IN  /\ counter_fields' = fields
           /\ counters' = AppendParsed(counters, parse_element(Card, CounterCardV2, fields))
    /\ mapped' = [mapped EXCEPT ![i + 1] = Append(@, Champ)]
    /\ ci' = ci + 1
    /\ UNCHANGED <<rowVars, buildVars, wheelVars, sessionVars>>
    /\ UNCHANGED <<flag, lanes, clientWidth, scrollLeft, pc, exc, i, curr_lane, cards,
                   common_data, iters, windows>>

\* The card loop of line 134 is through.
CardsDone ==
    /\ pc = "card"
    /\ ci > Len(cards)
    /\ pc' = "check"
    /\ UNCHANGED <<rowVars, buildVars, wheelVars, sessionVars>>
    /\ UNCHANGED <<flag, counter_fields, lanes, clientWidth, scrollLeft, exc, i,
                   curr_lane, seen_champions, counters, cards, ci, common_data, iters,
                   windows, mapped>>

\* RecordLane leaving out the lanes without a result.
RecordLane_SkipEmpty(data, label, result) ==
    IF result = <<>> THEN data ELSE Append(data, [label |-> label, counters |-> result])

\* Line 149: common_data.append({curr_lane: counters})
RecordLane(data, label, result) == Append(data, [label |-> label, counters |-> result])

\* Lines 147-149: the end of the strip is reached; the lane is recorded.
LaneDone ==
    /\ pc = "check"
    /\ IsExhausted(Lane, clientWidth, scrollLeft[i + 1])
    /\ common_data' = RecordLane(common_data, curr_lane, counters)
    /\ i' = i + 1
    /\ pc' = "for"
    /\ UNCHANGED <<rowVars, buildVars, wheelVars, sessionVars>>
    /\ UNCHANGED <<flag, counter_fields, lanes, clientWidth, scrollLeft, exc, curr_lane,
                   seen_champions, counters, cards, ci, iters, windows, mapped>>

\* Line 147 false: back to the top of the while loop.
LoopAgain ==
    /\ pc = "check"
    /\ ~IsExhausted(Lane, clientWidth, scrollLeft[i + 1])
    /\ pc' = "scroll"
    /\ UNCHANGED <<rowVars, buildVars, wheelVars, sessionVars>>
    /\ UNCHANGED <<flag, counter_fields, lanes, clientWidth, scrollLeft, exc, i,
                   curr_lane, seen_champions, counters, cards, ci, common_data, iters,
                   windows, mapped>>

\* Line 151: return common_data.
Return ==
    /\ pc = "for"
    /\ i >= Len(lanes)
    /\ pc' = "returned"
    /\ UNCHANGED <<rowVars, buildVars, wheelVars, sessionVars>>
    /\ UNCHANGED <<flag, counter_fields, lanes, clientWidth, scrollLeft, exc, i,
                   curr_lane, seen_champions, counters, cards, ci, common_data, iters,
                   windows, mapped>>

Next ==
    \/ WaitForSelector
    \/ StartLane
    \/ Scroll
    \/ QueryCards
    \/ CardFault
    \/ CardSeen
    \/ CardMap
    \/ CardsDone
    \/ LaneDone
    \/ LoopAgain
    \/ Return

Spec == Init /\ [][Next]_vars

\* -------------------------------------------------------------- properties

InLane == pc \in {"scroll", "query", "card", "check"}

\* Lanes that have a result: the recorded ones, and the one under way (or
\* the one an exception interrupted).
LanesWithResult ==
    (1..Len(common_data)) \cup
    (IF InLane \/ (pc = "raised" /\ Len(lanes) > 0) THEN {i + 1} ELSE {})

ResultOf(k) == IF k <= Len(common_data) THEN common_data[k].counters ELSE counters

IsRecord(v) == v.t = "rec"

\* Identity key of the n-th card of lane k.
KeyOfCard(k, n) == IdentityKey(CardElement(lanes[k].cards[n], flag), flag)

\* C1: no two records of a lane's result carry the same identity key, and no
\* key is handed to the field mapper twice within a lane.
C1_NoDuplicateKeys ==
    \A k \in LanesWithResult :
        LET r == ResultOf(k)
            m == mapped[k]
        IN  /\ \A a, b \in 1..Len(r) :
                  (a # b /\ IsRecord(r[a]) /\ IsRecord(r[b]))
                      => r[a].v.champion # r[b].v.champion
            /\ \A a, b \in 1..Len(m) : a # b => m[a] # m[b]

\* A recorded lane in which two different snapshots showed a card with the
\* same key, and whose result holds a record with that key.
C1_Witness ==
    \E k \in 1..Len(common_data) :
        \E w1, w2 \in 1..Len(windows[k]) :
            /\ w1 < w2
            /\ \E a \in 1..Len(windows[k][w1]), b \in 1..Len(windows[k][w2]) :
                  /\ KeyOfCard(k, windows[k][w1][a]) = KeyOfCard(k, windows[k][w2][b])
                  /\ \E n \in 1..Len(common_data[k].counters) :
                        /\ IsRecord(common_data[k].counters[n])
                        /\ common_data[k].counters[n].v.champion
                              = KeyOfCard(k, windows[k][w1][a])

\* The keys of the cards the page returned for lane k, snapshot after
\* snapshot, left to right within a snapshot.
RECURSIVE Flatten(_)
Flatten(ss) == IF ss = <<>> THEN <<>> ELSE Head(ss) \o Flatten(Tail(ss))

Observed(k) ==
    LET seq == Flatten(windows[k]) IN [n \in 1..Len(seq) |-> KeyOfCard(k, seq[n])]

\* Position at which a key first stands in a sequence of keys (0: never).
FirstIn(obs, key) ==
    LET at == {n \in 1..Len(obs) : obs[n].t = "str" /\ obs[n] = key}
    IN  IF at = {} THEN 0 ELSE CHOOSE n \in at : \A o \in at : n <= o

\* Position at which a key was first observed in lane k (0: never).
FirstObserved(k, key) == FirstIn(Observed(k), key)

\* C3: the records of a lane's result stand in the order in which their
\* candidates were first observed.
C3_OrderPreserved ==
    \A k \in LanesWithResult :
        LET r == ResultOf(k)
            obs == Observed(k)
            first == [a \in 1..Len(r) |->
                        IF IsRecord(r[a]) THEN FirstIn(obs, r[a].v.champion) ELSE 0]
        IN  \A a, b \in 1..Len(r) :
                (a < b /\ IsRecord(r[a]) /\ IsRecord(r[b]))
                    => (first[a] > 0 /\ first[a] < first[b])

\* A recorded lane whose result holds two records first revealed by
\* different scroll steps.
C3_Witness ==
    \E k \in 1..Len(common_data) :
        LET r == common_data[k].counters
        IN  \E a, b \in 1..Len(r) :
                /\ a < b /\ IsRecord(r[a]) /\ IsRecord(r[b])
                /\ Len(windows[k]) >= 2
                /\ FirstObserved(k, r[a].v.champion) <= Len(windows[k][1])
                /\ FirstObserved(k, r[b].v.champion) > Len(windows[k][1])

\* C6: a lane without cards is recorded under its label with an empty
\* result after a single pass of the loop, raises nothing, and the loop goes
\* on to the lanes after it.
C6_EmptyLane ==
    /\ \A k \in 1..Len(common_data) :
          /\ common_data[k].label = lanes[k].label
          /\ lanes[k].cards = <<>> => common_data[k].counters = <<>>
    /\ (pc = "raised" /\ Len(lanes) > 0) => lanes[i + 1].cards # <<>>
    /\ (InLane /\ Lane.cards = <<>>) => (iters <= 1 /\ counters = <<>>)
    /\ pc = "returned" => Len(common_data) = Len(lanes)

\* An empty first lane was recorded, and the lane after it produced a record.
C6_Witness ==
    /\ Len(common_data) = 2
    /\ lanes[1].cards = <<>>
    /\ common_data[1] = [label |-> "top", counters |-> <<>>]
    /\ \E n \in 1..Len(common_data[2].counters) : IsRecord(common_data[2].counters[n])

\* Cards of lane k that are rendered at some scroll offset between the
\* lane's starting offset 0 and the offset the container stands at.
EverVisible(k) ==
    {n \in 1..Len(lanes[k].cards) :
        (n - 1) * CardWidth < scrollLeft[k] + clientWidth}

\* The record the field mapper builds for the n-th card of lane k, or None.
MappedCard(k, n) ==
    parse_element(CardElement(lanes[k].cards[n], flag), CounterCardV2,
                  WithChampion(BuildFields, KeyOfCard(k, n)))

\* The field mapper turns every card of lane k that carries the key of its
\* n-th card into a record.
KeyMaps(k, n) ==
    \A o \in 1..Len(lanes[k].cards) :
        KeyOfCard(k, o) = KeyOfCard(k, n) => IsRecord(MappedCard(k, o))

\* C2: once a lane is recorded, every candidate that was visible at some
\* scroll position from the starting offset on, the not yet scrolled viewport
\* included, and that the field mapper turns into a record, has its key in
\* the lane's result exactly once.
C2_Complete ==
    \A k \in 1..Len(common_data) :
        \A n \in EverVisible(k) :
            KeyMaps(k, n) =>
                Cardinality({a \in 1..Len(common_data[k].counters) :
                                /\ IsRecord(common_data[k].counters[a])
                                /\ common_data[k].counters[a].v.champion = KeyOfCard(k, n)})
                    = 1

CeilDiv(a, b) == (a + b - 1) \div b

\* The step bound ceil((W - V) / S) + 1 of a lane for S = V - 100 > 0; for a
\* step of zero or less, where the quotient is undefined or negative, the
\* largest number of steps the history counts below its cap.
StepBound(lane, cw) ==
    IF cw - StepMargin > 0
    THEN CeilDiv(ScrollWidth(lane, cw) - cw, cw - StepMargin) + 1
    ELSE MaxIter - 1

\* C4: the loop of a lane takes at most ceil((W - V) / S) + 1 steps, for
\* every W >= V > 0.
C4_TerminatesWithinBound == InLane => iters <= StepBound(Lane, clientWidth)

\* A lane whose container cannot advance and is not at its end.
StuckLane ==
    /\ InLane
    /\ scrollLeft[i + 1] = ScrollBy(Lane, clientWidth, scrollLeft[i + 1])
    /\ ~IsExhausted(Lane, clientWidth, scrollLeft[i + 1])

\* C5: on a lane that cannot satisfy the exhaustion condition the extractor
\* stops at a safety bound: once it has made as many passes as the history
\* counts (MaxIter), it raises to its caller instead of starting another one.
C5_StuckPaginationReported ==
    [][(pc = "check" /\ StuckLane /\ iters >= MaxIter) => pc' = "raised"]_vars

\* C7: a candidate whose identity key cannot be computed is skipped; it
\* never makes the extractor raise.
C7_MalformedSkipped == ~(pc = "raised" /\ exc \in {"AttributeError", "IndexError"})

\* C8: a lane's result never holds an entry that is not a record.
C8_NoNullEntry ==
    \A k \in LanesWithResult :
        \A a \in 1..Len(ResultOf(k)) : IsRecord(ResultOf(k)[a])

\* C16: within a lane every advance comes after a snapshot and an exhaustion
\* test that was false: the loop snapshots first, then tests, and scrolls
\* only when the lane is not exhausted, so a lane that is exhausted at its
\* initial offset is never scrolled.
C16_SnapshotCheckAdvance ==
    [][(pc = "scroll" /\ pc' = "query")
          => (iters >= 1 /\ ~(scrollLeft[i + 1] + clientWidth
                                  >= ScrollWidth(Lane, clientWidth) - 5))]_vars

\* C17: the loop of a lane is left for the next lane only in a state where
\* scrollLeft + clientWidth >= scrollWidth - 5 holds, and once the test of
\* line 147 has found that true the lane is not scrolled again.
C17_ExhaustionOnlyExit ==
    [][/\ (pc = "check" /\ pc' = "for")
             => scrollLeft[i + 1] + clientWidth >= ScrollWidth(Lane, clientWidth) - 5
       /\ (pc = "check"
             /\ scrollLeft[i + 1] + clientWidth >= ScrollWidth(Lane, clientWidth) - 5)
             => (pc' \in {"check", "for"} /\ scrollLeft' = scrollLeft)]_vars

\* A lane was recorded after more than one pass of its loop, at the end of
\* a strip wider than the viewport.
C17_Witness ==
    \E k \in 1..Len(common_data) :
        /\ Len(windows[k]) >= 2
        /\ scrollLeft[k] > 0
        /\ scrollLeft[k] + clientWidth >= ScrollWidth(lanes[k], clientWidth) - 5

\* The keys lane k's snapshots showed, in the order of first observation.
RECURSIVE Distinct(_)
Distinct(seq) ==
    IF seq = <<>> THEN <<>>
    ELSE LET front == Distinct(SubSeq(seq, 1, Len(seq) - 1))
             last == seq[Len(seq)]
         IN  IF \E n \in 1..Len(front) : front[n] = last THEN front ELSE Append(front, last)

\* C19: the lanes are extracted one after another in discovery order, each
\* under its own label with a seen-set and a result of its own: the output
\* holds one entry per lane in discovery order, and the keys mapped in a lane
\* are the keys its own snapshots showed, whatever the lanes before it held.
C19_LanesIndependent ==
    /\ Len(common_data) <= Len(lanes)
    /\ \A k \in 1..Len(common_data) : common_data[k].label = Labels[k]
    /\ pc \in {"for", "returned"} => Len(common_data) = i
    /\ InLane => (Len(common_data) = i /\ curr_lane = Labels[i + 1])
    /\ pc = "returned" => Len(common_data) = Len(lanes)
    /\ \A k \in 1..Len(lanes) : k > i + 1 => (windows[k] = <<>> /\ mapped[k] = <<>>)
    /\ InLane => seen_champions = {mapped[i + 1][n] : n \in 1..Len(mapped[i + 1])}
    /\ \A k \in 1..Len(common_data) :
          LET obs == Observed(k)
          IN  (\A n \in 1..Len(obs) : ~IsExc(obs[n])) => mapped[k] = Distinct(obs)

\* Both lanes are recorded and each holds a record with the same key.
C19_Witness ==
    /\ pc = "returned"
    /\ Len(common_data) = 2
    /\ \E a \in 1..Len(common_data[1].counters), b \in 1..Len(common_data[2].counters) :
          /\ IsRecord(common_data[1].counters[a])
          /\ IsRecord(common_data[2].counters[b])
          /\ common_data[1].counters[a].v.champion = common_data[2].counters[b].v.champion

\* ------------------------------------------ the row loops and the field mapper

MaxRows == 1

\* The section extractor is not running.
SectionIdle ==
    /\ flag = "matchup"
    /\ counter_fields = BuildFields
    /\ lanes = <<>>
    /\ clientWidth = 200
    /\ scrollLeft = <<>>
    /\ pc = "idle"
    /\ exc = "none"
    /\ i = 0
    /\ curr_lane = ""
    /\ seen_champions = {}
    /\ counters = <<>>
    /\ cards = <<>>
    /\ ci = 1
    /\ common_data = <<>>
    /\ iters = 0
    /\ windows = <<>>
    /\ mapped = <<>>

\* The field tables the site parsers hand to parse_element, each with its
\* schema class.
SiteTables ==
    { [schema_cls |-> MetaChampion, fields |-> MetaFields],
      [schema_cls |-> CounterCard, fields |-> CountersFields],
      [schema_cls |-> CounterCardV2, fields |-> WithChampion(BuildFields, Str(<<"A", "h", "r", "i">>))] }

\* Further tables parse_element accepts: a site table whose first field has
\* an unsupported value_type, a selector of None, or a selector of None
\* together with a transform.
OddTables ==
    { [schema_cls |-> t.schema_cls,
       fields |-> [t.fields EXCEPT ![1] = [@ EXCEPT !.kind = "html"]]] : t \in SiteTables }
    \cup
    { [schema_cls |-> t.schema_cls,
       fields |-> [t.fields EXCEPT ![1] = [@ EXCEPT !.selector = ""]]] : t \in SiteTables }
    \cup
    { [schema_cls |-> t.schema_cls,
       fields |-> [t.fields EXCEPT ![1] = [@ EXCEPT !.selector = "", !.transform = TrPrefix]]] :
          t \in SiteTables }

Selectors(fs) == {fs[k].selector : k \in 1..Len(fs)} \ {""}

FieldAt(fs, selector) == fs[CHOOSE k \in 1..Len(fs) : fs[k].selector = selector]

\* A text the field resolves from: "+ 1.5" under the float(s[2:]) transform,
\* else a name, " 51.5 " or "12" by the type the schema declares.
GoodTextOf(t, fs) ==
    IF fs.transform.f = "float_s2" THEN <<"+", " ", "1", ".", "5">>
    ELSE IF t.schema_cls.types[fs.name] = "str" THEN <<"A", "h", "r", "i">>
    ELSE IF t.schema_cls.types[fs.name] = "float" THEN <<" ", "5", "1", ".", "5", " ">>
    ELSE <<"1", "2">>

GoodRow(t) ==
    [hasA |-> TRUE, href |-> NoneV,
     text |-> [sel \in Selectors(t.fields) |-> GoodTextOf(t, FieldAt(t.fields, sel))]]

\* The row without any match for the selector.
Without(row, selector) ==
    [row EXCEPT !.text = [sel \in DOMAIN row.text \ {selector} |-> row.text[sel]]]

OddTexts == {<<"5", "1", ".", "5", "%">>, <<>>, <<"1", ".", "2", ".", "3">>, <<"x">>}

\* The elements a table is tried on: the good row, the good row with one
\* selector matching nothing, the good row with one odd text.
RowsOf(t) ==
    {GoodRow(t)}
    \cup {Without(GoodRow(t), sel) : sel \in Selectors(t.fields)}
    \cup {[GoodRow(t) EXCEPT !.text[sel] = txt] : sel \in Selectors(t.fields), txt \in OddTexts}

RowInit ==
    /\ SectionIdle
    /\ BuildIdle
    /\ dataset = <<>>
    /\ WheelIdle
    /\ SessionIdle
    /\ \E t \in SiteTables \cup OddTables :
          /\ row_schema = t.schema_cls
          /\ row_fields = t.fields
          /\ rows \in SeqsUpTo(RowsOf(t), MaxRows)
    /\ ri = 1
    /\ stat = NoneV
    /\ stats = <<>>
    /\ mpc = "rows"

\* Lines 69-70 and 105-106: stat = parse_element(row, ...); if stat: append.
ParseRow ==
    /\ mpc = "rows"
    /\ ri <= Len(rows)
    /\ stat' = parse_element(rows[ri], row_schema, row_fields)
    /\ stats' = IF IsNone(stat') THEN stats ELSE Append(stats, stat')
    /\ ri' = ri + 1
    /\ UNCHANGED <<row_schema, row_fields, rows, mpc>>
    /\ UNCHANGED <<sectionVars, buildVars, wheelVars, sessionVars>>

\* Lines 72 and 108: the aggregate is returned.
ReturnStats ==
    /\ mpc = "rows"
    /\ ri > Len(rows)
    /\ mpc' = "returned"
    /\ UNCHANGED <<row_schema, row_fields, rows, ri, stat, stats>>
    /\ UNCHANGED <<sectionVars, buildVars, wheelVars, sessionVars>>

RowNext == ParseRow \/ ReturnStats

RowSpec == RowInit /\ [][RowNext]_vars

\* The row parse_element was last called on.
LastRow == rows[ri - 1]

\* What one field of the table comes to for the last row: resolved, then
\* validated by the schema where the schema declares it.
FieldOutcome(n) ==
    LET v == ResolveField(LastRow, FieldOf(row_fields, n))
    IN  IF IsExc(v) \/ n \notin DOMAIN row_schema.types THEN v
        ELSE Coerce(row_schema.types[n], v)

\* C9: parse_element returns None or a record of the schema class built from
\* all row_fields of the table; when any field faults it returns None; it never
\* hands an exception to its caller.
C9_AllOrNothing ==
    (mpc # "idle" /\ ri > 1) =>
        /\ stat.t \in {"None", "rec"}
        /\ (\E n \in FieldNames(row_fields) : IsExc(FieldOutcome(n))) => IsNone(stat)
        /\ IsRecord(stat) =>
              /\ stat.cls = row_schema.name
              /\ DOMAIN stat.v = DOMAIN row_schema.types
              /\ \A n \in DOMAIN stat.v :
                    stat.v[n] = IF n \in FieldNames(row_fields) THEN FieldOutcome(n) ELSE NoneV

\* parse_element was called on a row with a faulting field and returned None.
C9_WitnessFault ==
    /\ mpc # "idle" /\ ri > 1
    /\ \E n \in FieldNames(row_fields) : IsExc(FieldOutcome(n))
    /\ IsNone(stat)

\* The good row with exactly one site-table selector matching nothing.
OneLocatorMisses(n) ==
    /\ mpc # "idle" /\ ri > 1
    /\ [schema_cls |-> row_schema, fields |-> row_fields] \in SiteTables
    /\ n \in FieldNames(row_fields)
    /\ FieldOf(row_fields, n).selector # ""
    /\ LastRow = Without(GoodRow([schema_cls |-> row_schema, fields |-> row_fields]),
                         FieldOf(row_fields, n).selector)

\* C10: when one field's locator matches nothing and the other row_fields
\* resolve, parse_element returns a record with that field unset, for every
\* field of the site tables.
C10_NullPropagation ==
    \A n \in FieldNames(row_fields) :
        OneLocatorMisses(n) => (IsRecord(stat) /\ IsNone(stat.v[n]))

\* C18: a field whose locator is None comes out of parse_element as its
\* transform applied once to None, validated by the schema, for every
\* transform; without a transform it comes out as None.
C18_NullLocatorOnce ==
    (mpc # "idle" /\ ri > 1 /\ IsRecord(stat)) =>
        \A n \in FieldNames(row_fields) \cap DOMAIN row_schema.types :
            FieldOf(row_fields, n).selector = "" =>
                stat.v[n] = IF FieldOf(row_fields, n).transform.f = "none" THEN NoneV
                            ELSE Coerce(row_schema.types[n],
                                        Apply(FieldOf(row_fields, n).transform, NoneV))

\* ------------------------------------------------------------- auto_scroll

MaxScrolls == 6

\* The default of auto_scroll's step argument.
WheelStep == 300

\* Height of the browser window and heights of the documents scrolled.
ViewportHeight == 600
PageHeights == {600, 900, 1500, 2400}

WheelInit ==
    /\ SectionIdle
    /\ RowsIdle
    /\ BuildIdle
    /\ SessionIdle
    /\ dataset = <<>>
    /\ max_scrolls \in 0..MaxScrolls
    /\ scrolls = 0
    /\ scrollTop = 0
    /\ pageHeight \in PageHeights
    /\ spc = "loop"

\* LoopMore running the body once more than range(max_scrolls) does.
LoopMore_Inclusive(k, max) == k <= max

\* Line 72: for _ in range(max_scrolls), after k passes.
LoopMore(k, max) == k < max

\* Line 73: page.mouse.wheel(0, step); the browser clamps the offset to the
\* end of the document.
Wheel ==
    /\ spc = "loop"
    /\ LoopMore(scrolls, max_scrolls)
    /\ scrollTop' = Min(scrollTop + WheelStep, Max(0, pageHeight - ViewportHeight))
    /\ scrolls' = scrolls + 1
    /\ spc' = "wait"
    /\ UNCHANGED <<max_scrolls, pageHeight>>
    /\ UNCHANGED <<sectionVars, rowVars, buildVars, sessionVars>>

\* Line 74: page.wait_for_timeout(int(delay * 100)) is over.
WheelSettled ==
    /\ spc = "wait"
    /\ spc' = "loop"
    /\ UNCHANGED <<max_scrolls, scrolls, scrollTop, pageHeight>>
    /\ UNCHANGED <<sectionVars, rowVars, buildVars, sessionVars>>

\* The for loop is through: auto_scroll returns.
WheelReturn ==
    /\ spc = "loop"
    /\ ~LoopMore(scrolls, max_scrolls)
    /\ spc' = "returned"
    /\ UNCHANGED <<max_scrolls, scrolls, scrollTop, pageHeight>>
    /\ UNCHANGED <<sectionVars, rowVars, buildVars, sessionVars>>

WheelNext == Wheel \/ WheelSettled \/ WheelReturn

WheelSpec == WheelInit /\ [][WheelNext]_vars

\* The document is scrolled to its end.
PageAtEnd == scrollTop + ViewportHeight >= pageHeight

\* C20 as stated: auto_scroll issues at most max_scrolls wheel steps and
\* issues none once the page has reached its end.
C20_StopsAtPageEnd ==
    [][scrolls' > scrolls => (scrolls < max_scrolls /\ ~PageAtEnd)]_vars

\* C20 amended: auto_scroll never issues more than max_scrolls wheel steps
\* and returns after exactly max_scrolls of them, whether or not the page
\* has reached its end, for every max_scrolls >= 0.
C20_ExactlyMaxScrolls ==
    spc # "idle" =>
        /\ scrolls <= max_scrolls
        /\ spc = "returned" => scrolls = max_scrolls

\* auto_scroll returned after several steps on a page that was at its end
\* from the start.
C20_Witness ==
    /\ spc = "returned"
    /\ scrolls >= 2
    /\ pageHeight <= ViewportHeight

\* ------------------------------------- the extractor called a second time

\* Card kinds and container widths of the pages the extractor is called
\* twice on.
BuildKinds == {"A", "B", "Bx", "NoA"}
BuildViewports == {150, 200}

\* Entry of parse_common_section(page, flag, counter_fields, ...): the
\* locals are new, the field table is the caller's, the page is as it stands.
EnterSection(f) ==
    /\ flag' = f
    /\ pc' = "wait"
    /\ exc' = "none"
    /\ i' = 0
    /\ curr_lane' = ""
    /\ seen_champions' = {}
    /\ counters' = <<>>
    /\ cards' = <<>>
    /\ ci' = 1
    /\ common_data' = <<>>
    /\ iters' = 0
    /\ windows' = [k \in 1..Len(lanes) |-> <<>>]
    /\ mapped' = [k \in 1..Len(lanes) |-> <<>>]
    /\ UNCHANGED <<counter_fields, lanes, clientWidth, scrollLeft>>

\* The extractor is called on a page that nothing else changes.
RerunInit ==
    /\ flag \in Flags
    /\ counter_fields = BuildFields
    /\ \E p \in PagesOf(BuildKinds, MaxCards) :
          lanes = [k \in 1..Len(p) |-> [label |-> Labels[k], cards |-> p[k]]]
    /\ clientWidth \in BuildViewports
    /\ scrollLeft = [k \in 1..Len(lanes) |-> 0]
    /\ pc = "wait"
    /\ exc = "none"
    /\ i = 0
    /\ curr_lane = ""
    /\ seen_champions = {}
    /\ counters = <<>>
    /\ cards = <<>>
    /\ ci = 1
    /\ common_data = <<>>
    /\ iters = 0
    /\ windows = [k \in 1..Len(lanes) |-> <<>>]
    /\ mapped = [k \in 1..Len(lanes) |-> <<>>]
    /\ RowsIdle
    /\ WheelIdle
    /\ SessionIdle
    /\ bpc = "first"
    /\ dataset = [k \in 1..Len(lanes) |-> flag]
    /\ has_tab = TRUE
    /\ objective_rows = <<>>
    /\ page = "open"
    /\ old_check = NoneV
    /\ common_matchup = <<>>
    /\ common_teammates = <<>>
    /\ objectives = <<>>
    /\ build_result = NoneV

\* The caller keeps the first result and calls the extractor again with the
\* same page, flag and field table (as lines 170 and 188 do).
CallAgain ==
    /\ bpc = "first"
    /\ pc = "returned"
    /\ common_matchup' = common_data
    /\ EnterSection(flag)
    /\ bpc' = "second"
    /\ UNCHANGED <<dataset, has_tab, objective_rows, page, old_check, common_teammates,
                   objectives, build_result>>
    /\ UNCHANGED <<rowVars, wheelVars, sessionVars>>

RerunNext == Next \/ CallAgain

RerunSpec == RerunInit /\ [][RerunNext]_vars

\* C13: a call of the extractor leaves the caller's field table as it was
\* and leaves no scroll state behind: the second call on the same page
\* starts with the table and every lane's offset as the first call found them.
C13_NoStateLeft ==
    (bpc = "second" /\ pc = "wait") =>
        /\ counter_fields = BuildFields
        /\ \A k \in 1..Len(lanes) : scrollLeft[k] = 0

\* C14: called twice in a row on the same static lanes, the extractor
\* returns the same result sequence for every lane both times.
C14_SameResultTwice ==
    (bpc = "second" /\ pc = "returned") => common_data = common_matchup

\* --------------------------------------------------- parse_champion_build

ObjectiveInfo ==
    [name |-> "ObjectiveInfo",
     types |-> [secure_percent |-> "float", secure_win_percent |-> "float",
                yield_percent |-> "float", yield_win_percent |-> "float"]]

\* text_content() of a card's <a>: the rates the card shows. The "B" card
\* shows the same rates among the matchups and among the teammates.
AnchorText(kind, ds) ==
    IF kind = "B" THEN Str(<<" ", "5", "0", ".", "0", " ">>)
    ELSE IF ds = "matchup" THEN Str(<<" ", "5", "1", ".", "5", " ">>)
    ELSE Str(<<" ", "4", "9", ".", "0", " ">>)

\* The element the selector of lines 171, 172 and 180 matches: the <a> of
\* the first card rendered in the first lane; its text, or None without one.
WatchedText ==
    IF Len(lanes) = 0 THEN NoneV
    ELSE LET shown == Visible(lanes[1], clientWidth, scrollLeft[1])
         IN  IF shown = <<>> \/ lanes[1].cards[shown[1]] = "NoA" THEN NoneV
             ELSE AnchorText(lanes[1].cards[shown[1]], dataset[1])

\* Lines 176-186: el && el.textContent.trim() !== args.oldCheck, with
\* oldCheck = old_check.strip() if old_check else "".
BarrierCondition ==
    /\ ~IsNone(WatchedText)
    /\ Strip(WatchedText.s) # (IF IsNone(old_check) THEN <<>> ELSE Strip(old_check.s))

\* The objectives tables the page may hold: none, one row of three cells,
\* one row of two cells, one row whose second cell reads 51%.
ObjectiveTables ==
    { <<>>,
      << << <<"D", "r", "a", "k", "e">>, <<"5", "1", ".", "5">>, <<"4", "8">> >> >>,
      << << <<"D", "r", "a", "k", "e">>, <<"5", "1", ".", "5">> >> >>,
      << << <<"D", "r", "a", "k", "e">>, <<"5", "1", "%">>, <<"4", "8">> >> >> }

\* Line 204: objectives[name] = ObjectiveInfo(...), unless the validation
\* raised.
ObjectiveItem(name, info) ==
    IF IsExc(info) THEN info
    ELSE [t |-> "item", name |-> [k \in 1..Len(name) |-> ToLower(name[k])], info |-> info]

\* Lines 196-204 for one row: the cells indexed, the ObjectiveInfo built.
ObjectiveOf(tds) ==
    IF Len(tds) < 3 THEN Exc("IndexError")
    ELSE ObjectiveItem(tds[1],
             Construct(ObjectiveInfo,
                 [secure_percent |-> Str(tds[2]),
                  secure_win_percent |-> Str(tds[3]),
                  yield_percent |-> IF Len(tds) > 3 THEN Str(tds[4]) ELSE NoneV,
                  yield_win_percent |-> IF Len(tds) > 4 THEN Str(tds[5]) ELSE NoneV]))

\* Validation of a List[Dict[str, List[CounterCardV2]]] field: every entry
\* of every lane has to be a CounterCardV2.
ValidSection(data) ==
    \A k \in 1..Len(data) : \A n \in 1..Len(data[k].counters) : data[k].counters[n].t = "rec"

\* Line 206: ChampionStats(...) once the objectives loop is through; the
\* first exception of the loop if it is not.
StatsFrom(matchup, teammates, objs) ==
    IF \E k \in 1..Len(objs) : IsExc(objs[k])
    THEN objs[CHOOSE k \in 1..Len(objs) :
                 IsExc(objs[k]) /\ \A o \in 1..(k - 1) : ~IsExc(objs[o])]
    ELSE IF ~ValidSection(matchup) \/ ~ValidSection(teammates)
    THEN Exc("ValidationError")
    ELSE [t |-> "rec", cls |-> "ChampionStats",
          v |-> [champion |-> Str(<<"J", "a", "x">>), objectives |-> objs,
                 common_matchup |-> matchup, common_teammates |-> teammates]]

\* Lines 190-206: the objectives loop and ChampionStats(...).
ChampionStatsOf(matchup, teammates, table) ==
    StatsFrom(matchup, teammates, [k \in 1..Len(table) |-> ObjectiveOf(table[k])])

\* The section variables but exc.
sectionRest == <<flag, counter_fields, lanes, clientWidth, scrollLeft, pc, i, curr_lane,
                 seen_champions, counters, cards, ci, common_data, iters, windows,
                 mapped>>

BuildInit ==
    /\ flag = "matchup"
    /\ counter_fields = BuildFields
    /\ \E p \in PagesOf(BuildKinds, MaxCards) :
          lanes = [k \in 1..Len(p) |-> [label |-> Labels[k], cards |-> p[k]]]
    /\ clientWidth \in BuildViewports
    /\ scrollLeft = [k \in 1..Len(lanes) |-> 0]
    /\ pc = "idle"
    /\ exc = "none"
    /\ i = 0
    /\ curr_lane = ""
    /\ seen_champions = {}
    /\ counters = <<>>
    /\ cards = <<>>
    /\ ci = 1
    /\ common_data = <<>>
    /\ iters = 0
    /\ windows = [k \in 1..Len(lanes) |-> <<>>]
    /\ mapped = [k \in 1..Len(lanes) |-> <<>>]
    /\ RowsIdle
    /\ WheelIdle
    /\ SessionIdle
    /\ bpc = "start"
    /\ dataset = [k \in 1..Len(lanes) |-> "matchup"]
    /\ has_tab = TRUE
    /\ objective_rows = <<>>
    /\ page = "none"
    /\ old_check = NoneV
    /\ common_matchup = <<>>
    /\ common_teammates = <<>>
    /\ objectives = <<>>
    /\ build_result = NoneV

\* Lines 166-170: the page is opened, loaded and scrolled down (auto_scroll,
\* see WheelSpec), and the matchup extraction entered.
OpenPage ==
    /\ bpc = "start"
    /\ page' = "open"
    /\ EnterSection("matchup")
    /\ bpc' = "matchup"
    /\ UNCHANGED <<dataset, has_tab, objective_rows, old_check, common_matchup,
                   common_teammates, objectives, build_result>>
    /\ UNCHANGED <<rowVars, wheelVars, sessionVars>>

\* Lines 166-167 raising: new_page fails (self.page stays unset), or goto
\* runs into its timeout on the open page.
OpenFails ==
    /\ bpc = "start"
    /\ \/ page' = page /\ exc' = "Error"
       \/ page' = "open" /\ exc' = "TimeoutError"
    /\ bpc' = "except"
    /\ UNCHANGED <<dataset, has_tab, objective_rows, old_check, common_matchup,
                   common_teammates, objectives, build_result>>
    /\ UNCHANGED <<sectionRest, rowVars, wheelVars, sessionVars>>

\* An exception leaves parse_common_section and reaches line 208.
SectionRaised ==
    /\ bpc \in {"matchup", "teammates"}
    /\ pc = "raised"
    /\ bpc' = "except"
    /\ UNCHANGED <<dataset, has_tab, objective_rows, page, old_check, common_matchup,
                   common_teammates, objectives, build_result>>
    /\ UNCHANGED <<sectionVars, rowVars, wheelVars, sessionVars>>

\* Lines 170-172: the matchups are returned; wait for the watched <a> (a
\* timeout without one) and keep its text.
MatchupDone ==
    /\ bpc = "matchup"
    /\ pc = "returned"
    /\ common_matchup' = common_data
    /\ IF IsNone(WatchedText)
       THEN exc' = "TimeoutError" /\ bpc' = "except" /\ old_check' = old_check
       ELSE exc' = exc /\ bpc' = "click" /\ old_check' = WatchedText
    /\ UNCHANGED <<dataset, has_tab, objective_rows, page, common_teammates, objectives,
                   build_result>>
    /\ UNCHANGED <<sectionRest, rowVars, wheelVars, sessionVars>>

\* Line 174: click on the teammates tab; a timeout when the page has none.
ClickTab ==
    /\ bpc = "click"
    /\ has_tab' \in BOOLEAN
    /\ IF has_tab'
       THEN exc' = exc /\ bpc' = "barrier"
       ELSE exc' = "TimeoutError" /\ bpc' = "except"
    /\ UNCHANGED <<dataset, objective_rows, page, old_check, common_matchup,
                   common_teammates, objectives, build_result>>
    /\ UNCHANGED <<sectionRest, rowVars, wheelVars, sessionVars>>

\* The page, after the click: one lane's strip is rendered anew from the
\* teammates data.
SwapLane(k) ==
    /\ bpc \in {"barrier", "teammates"}
    /\ dataset[k] = "matchup"
    /\ dataset' = [dataset EXCEPT ![k] = "teammates"]
    /\ UNCHANGED <<bpc, has_tab, objective_rows, page, old_check, common_matchup,
                   common_teammates, objectives, build_result>>
    /\ UNCHANGED <<sectionVars, rowVars, wheelVars, sessionVars>>

\* Lines 176-188: wait_for_function finds the watched text changed; the
\* teammates extraction is entered with the same counter_fields.
BarrierPassed ==
    /\ bpc = "barrier"
    /\ BarrierCondition
    /\ EnterSection("teammates")
    /\ bpc' = "teammates"
    /\ UNCHANGED <<dataset, has_tab, objective_rows, page, old_check, common_matchup,
                   common_teammates, objectives, build_result>>
    /\ UNCHANGED <<rowVars, wheelVars, sessionVars>>

\* BarrierTimeoutGoes with the timeout swallowed.
BarrierTimeoutGoes_On == "teammates"

\* Where the TimeoutError of wait_for_function takes control: line 208.
BarrierTimeoutGoes == "except"

\* Lines 176-186: the 10 s of wait_for_function are over and the condition
\* is still false.
BarrierTimeout ==
    /\ bpc = "barrier"
    /\ ~BarrierCondition
    /\ exc' = "TimeoutError"
    /\ bpc' = BarrierTimeoutGoes
    /\ UNCHANGED <<dataset, has_tab, objective_rows, page, old_check, common_matchup,
                   common_teammates, objectives, build_result>>
    /\ UNCHANGED <<sectionRest, rowVars, wheelVars, sessionVars>>

\* Line 206 returning the record, or the exception on its way to line 208.
Outcome(made) ==
    IF IsExc(made)
    THEN /\ exc' = made.k
         /\ bpc' = "except"
         /\ UNCHANGED <<objectives, build_result>>
    ELSE /\ exc' = exc
         /\ bpc' = "finally"
         /\ objectives' = made.v.objectives
         /\ build_result' = made

\* Lines 188-206: the teammates are returned, the objectives table read and
\* the ChampionStats built and returned, unless a row or the validation
\* raises.
TeammatesDone ==
    /\ bpc = "teammates"
    /\ pc = "returned"
    /\ common_teammates' = common_data
    /\ \E table \in ObjectiveTables :
          /\ objective_rows' = table
          /\ Outcome(ChampionStatsOf(common_matchup, common_data, table))
    /\ UNCHANGED <<dataset, has_tab, page, old_check, common_matchup>>
    /\ UNCHANGED <<sectionRest, rowVars, wheelVars, sessionVars>>

\* Lines 208-210: except Exception: log, return None.
Except ==
    /\ bpc = "except"
    /\ build_result' = NoneV
    /\ bpc' = "finally"
    /\ UNCHANGED <<dataset, has_tab, objective_rows, page, old_check, common_matchup,
                   common_teammates, objectives>>
    /\ UNCHANGED <<sectionVars, rowVars, wheelVars, sessionVars>>

\* Lines 211-213: finally: if self.page: await self.page.close()
Finally ==
    /\ bpc = "finally"
    /\ page' = IF page = "open" THEN "closed" ELSE page
    /\ bpc' = "done"
    /\ UNCHANGED <<dataset, has_tab, objective_rows, old_check, common_matchup,
                   common_teammates, objectives, build_result>>
    /\ UNCHANGED <<sectionVars, rowVars, wheelVars, sessionVars>>

BuildNext ==
    \/ Next
    \/ OpenPage
    \/ OpenFails
    \/ SectionRaised
    \/ MatchupDone
    \/ ClickTab
    \/ \E k \in 1..Len(lanes) : SwapLane(k)
    \/ BarrierPassed
    \/ BarrierTimeout
    \/ TeammatesDone
    \/ Except
    \/ Finally

BuildSpec == BuildInit /\ [][BuildNext]_vars

\* The wait of lines 176-186 ran into its timeout: the tab was clicked, the
\* text before the click is known, a TimeoutError is under way or handled.
BarrierTimedOut == exc = "TimeoutError" /\ has_tab /\ ~IsNone(old_check)

\* C11: when the watched text still equals the text before the click as the
\* wait ends, a TimeoutError is raised, the teammates extraction is never
\* entered, and parse_champion_build returns None.
C11_BarrierTimeout ==
    /\ [](BarrierTimedOut =>
            /\ bpc \in {"except", "finally", "done"}
            /\ flag = "matchup"
            /\ common_teammates = <<>>
            /\ IsNone(build_result))
    /\ [][(bpc = "barrier" /\ ~BarrierCondition /\ bpc' # bpc)
             => (bpc' = "except" /\ exc' = "TimeoutError" /\ flag' = "matchup"
                 /\ pc' = "returned")]_vars

\* parse_champion_build is through after the wait timed out on a page whose
\* first lane was swapped but shows the same text as before.
C11_Witness ==
    /\ bpc = "done"
    /\ BarrierTimedOut
    /\ dataset[1] = "teammates"
    /\ IsNone(build_result)
    /\ page = "closed"

\* C12: every card the teammates extraction reads is rendered from the
\* teammates data, in every lane.
C12_NoStaleRead ==
    [][(bpc = "teammates" /\ pc = "card" /\ ci <= Len(cards)
          /\ (ci' # ci \/ pc' = "raised"))
         => dataset[i + 1] = "teammates"]_vars

\* C15: parse_champion_build returns a record only when nothing faulted: no
\* exception was raised and the objectives table was there.
C15_FaultFailsTarget ==
    IsRecord(build_result) => (exc = "none" /\ objective_rows # <<>>)

\* ------------------------------------------- DeepLOLParser.parse_player_stats

\* parse_* calls followed on one parser instance.
MaxCalls == 3

\* Rows after the header row that a champions table holds at most.
MaxChampions == 1

\* The profiles the url argument leads to.
Profiles == {"faker", "caps"}

Modes == {"solo", "flex"}

\* The site: what a profile's pages show.
NickOf(profile) == IF profile = "faker" THEN Str(<<"F">>) ELSE Str(<<"C">>)

TierOf(profile, mode) ==
    IF profile = "faker"
    THEN (IF mode = "solo" THEN Str(<<"G">>) ELSE Str(<<"P">>))
    ELSE (IF mode = "solo" THEN Str(<<"S">>) ELSE Str(<<"B">>))

ChampionOf(profile, mode, n) ==
    IF profile = "faker"
    THEN (IF mode = "solo" THEN Str(<<"J", "a", "x">>) ELSE Str(<<"L", "u", "x">>))
    ELSE (IF mode = "solo" THEN Str(<<"Z", "e", "d">>) ELSE Str(<<"A", "s", "h", "e">>))

\* _parse_rank_section: the RankInfo of the section, or None when building it
\* raised (lines 152-154).
ParseRankSection(profile, mode, ok) ==
    IF ok
    THEN [t |-> "rec", cls |-> "RankInfo",
          v |-> [rank |-> TierOf(profile, mode), lp |-> NoneV, wins |-> NoneV,
                 losses |-> NoneV, win_rate |-> NoneV]]
    ELSE NoneV

\* _parse_champion_data: None when the tab or the table is not there in time
\* (lines 90-92) or no row follows the header (line 88), else one
\* ChampionStats per row after the header.
ParseChampionData(profile, mode, tab_ok, n) ==
    IF ~tab_ok \/ n = 0 THEN NoneV
    ELSE [t |-> "list",
          v |-> [k \in 1..n |->
                    [t |-> "rec", cls |-> "ChampionStats",
                     v |-> [champion |-> ChampionOf(profile, mode, k)]]]]

\* Lines 166-172: the aggregate built from the instance attributes; reading
\* an attribute the instance does not have raises AttributeError.
PlayerStatsOf(attrs) ==
    IF \E a \in Attrs : attrs[a] = Unset THEN Exc("AttributeError")
    ELSE [t |-> "rec", cls |-> "PlayerStats", v |-> attrs]

playerRest == <<sectionVars, rowVars, buildVars, wheelVars, lifeVars>>

\* A parser just constructed (__init__ sets browser and page only).
PlayerInit ==
    /\ SectionIdle
    /\ RowsIdle
    /\ BuildIdle
    /\ dataset = <<>>
    /\ WheelIdle
    /\ LifeIdle
    /\ ppc = "ready"
    /\ player_url = ""
    /\ self_attrs = [a \in Attrs |-> Unset]
    /\ assigned = {}
    /\ player_page = "none"
    /\ player_result = NoneV
    /\ pcalls = 0

\* parse_player_stats(url) is called.
PlayerCall ==
    /\ ppc = "ready"
    /\ pcalls < MaxCalls
    /\ pcalls' = pcalls + 1
    /\ player_url' \in Profiles
    /\ assigned' = {}
    /\ player_result' = NoneV
    /\ ppc' = "new_page"
    /\ UNCHANGED <<self_attrs, player_page>>
    /\ UNCHANGED playerRest

\* Line 161: self.page = await self.browser.new_page().
PlayerNewPage ==
    /\ ppc = "new_page"
    /\ player_page' = "open"
    /\ ppc' = "main"
    /\ UNCHANGED <<player_url, self_attrs, assigned, player_result, pcalls>>
    /\ UNCHANGED playerRest

\* Line 161 raises: self.page keeps its old value.
PlayerNewPageFails ==
    /\ ppc = "new_page"
    /\ ppc' = "except"
    /\ UNCHANGED <<player_url, self_attrs, assigned, player_page, player_result, pcalls>>
    /\ UNCHANGED playerRest

\* _parse_main_page runs through (lines 108-119): the three attributes are
\* assigned; extract_text and _parse_rank_section return None on a fault.
ParseMainPage ==
    /\ ppc = "main"
    /\ \E nick_ok \in BOOLEAN, solo_ok \in BOOLEAN, flex_ok \in BOOLEAN :
          self_attrs' =
              [self_attrs EXCEPT
                  !.nickname = IF nick_ok THEN NickOf(player_url) ELSE NoneV,
                  !.current_rank_solo = ParseRankSection(player_url, "solo", solo_ok),
                  !.current_rank_flex = ParseRankSection(player_url, "flex", flex_ok)]
    /\ assigned' = assigned \cup {"nickname", "current_rank_solo", "current_rank_flex"}
    /\ ppc' = "champions"
    /\ UNCHANGED <<player_url, player_page, player_result, pcalls>>
    /\ UNCHANGED playerRest

\* _parse_main_page raises (goto or the wait times out, lines 108-109, or the
\* anti-bot page is shown, line 112): nothing is assigned.
ParseMainPageRaises ==
    /\ ppc = "main"
    /\ ppc' = "except"
    /\ UNCHANGED <<player_url, self_attrs, assigned, player_page, player_result, pcalls>>
    /\ UNCHANGED playerRest

\* _parse_champions_page gets past its waits (lines 125-129): both lists are
\* assigned from _parse_champion_data.
ParseChampionsPage ==
    /\ ppc = "champions"
    /\ \E solo_ok \in BOOLEAN, flex_ok \in BOOLEAN,
          solo_n \in 0..MaxChampions, flex_n \in 0..MaxChampions :
          self_attrs' =
              [self_attrs EXCEPT
                  !.champions_solo = ParseChampionData(player_url, "solo", solo_ok, solo_n),
                  !.champions_flex = ParseChampionData(player_url, "flex", flex_ok, flex_n)]
    /\ assigned' = assigned \cup {"champions_solo", "champions_flex"}
    /\ ppc' = "return"
    /\ UNCHANGED <<player_url, player_page, player_result, pcalls>>
    /\ UNCHANGED playerRest

\* goto or the wait of _parse_champions_page raises (lines 125-126): the
\* exception is logged and swallowed (lines 131-133), nothing is assigned.
ParseChampionsPageFails ==
    /\ ppc = "champions"
    /\ ppc' = "return"
    /\ UNCHANGED <<player_url, self_attrs, assigned, player_page, player_result, pcalls>>
    /\ UNCHANGED playerRest

\* Lines 166-172: return PlayerStats(...), or the AttributeError goes to the
\* except clause.
PlayerReturn ==
    /\ ppc = "return"
    /\ IF IsExc(PlayerStatsOf(self_attrs))
       THEN ppc' = "except" /\ UNCHANGED player_result
       ELSE ppc' = "finally" /\ player_result' = PlayerStatsOf(self_attrs)
    /\ UNCHANGED <<player_url, self_attrs, assigned, player_page, pcalls>>
    /\ UNCHANGED playerRest

\* Lines 174-176: except Exception: return None.
PlayerExcept ==
    /\ ppc = "except"
    /\ player_result' = NoneV
    /\ ppc' = "finally"
    /\ UNCHANGED <<player_url, self_attrs, assigned, player_page, pcalls>>
    /\ UNCHANGED playerRest

\* Lines 177-179: finally: if self.page: await self.page.close().
PlayerFinally ==
    /\ ppc = "finally"
    /\ player_page' = IF player_page = "none" THEN "none" ELSE "closed"
    /\ ppc' = "ready"
    /\ UNCHANGED <<player_url, self_attrs, assigned, player_result, pcalls>>
    /\ UNCHANGED playerRest

PlayerNext ==
    \/ PlayerCall
    \/ PlayerNewPage
    \/ PlayerNewPageFails
    \/ ParseMainPage
    \/ ParseMainPageRaises
    \/ ParseChampionsPage
    \/ ParseChampionsPageFails
    \/ PlayerReturn
    \/ PlayerExcept
    \/ PlayerFinally

PlayerSpec == PlayerInit /\ [][PlayerNext]_vars

\* A call has returned an aggregate.
ReturnedStats == ppc = "ready" /\ pcalls > 0 /\ IsRecord(player_result)

\* C21: every value an aggregate returned by parse_player_stats carries was
\* assigned during the call that returns it: a field not assigned in that
\* call (the champion lists, when the champions page failed) is None.
C21_NoCarryOver ==
    ReturnedStats =>
        \A a \in Attrs : a \notin assigned => IsNone(player_result.v[a])

\* ------------------------------------------ page lifetime of a parser session

\* The parse_* methods of LolalyticsParser; each opens its page in a try and
\* closes self.page in the finally.
Methods == {"parse_meta_stats", "parse_counters_stats", "parse_champion_build"}

\* Who calls close() on a page: the number of the parse_* call, or
\* ParserClose for LolalyticsParser.close().
ParserClose == 0

lifeRest == <<sectionVars, rowVars, buildVars, wheelVars, playerVars>>

\* main, after parser.setup(): no page yet on the parser or the browser.
LifeInit ==
    /\ SectionIdle
    /\ RowsIdle
    /\ BuildIdle
    /\ dataset = <<>>
    /\ WheelIdle
    /\ PlayerIdle
    /\ lpc = "ready"
    /\ method = ""
    /\ opened = <<>>
    /\ self_page = 0
    /\ browser_page = 0
    /\ life_result = NoneV
    /\ lcalls = 0

\* A parse_* method is called.
LifeCall ==
    /\ lpc = "ready"
    /\ lcalls < MaxCalls
    /\ lcalls' = lcalls + 1
    /\ method' \in Methods
    /\ life_result' = NoneV
    /\ lpc' = "new_page"
    /\ UNCHANGED <<opened, self_page, browser_page>>
    /\ UNCHANGED lifeRest

\* self.page = await self.browser.new_page(): the browser keeps the page in
\* its own page attribute too (playwright_browser.py lines 46-47).
LifeNewPage ==
    /\ lpc = "new_page"
    /\ opened' = Append(opened, [by |-> lcalls, closes |-> <<>>])
    /\ self_page' = Len(opened) + 1
    /\ browser_page' = Len(opened) + 1
    /\ lpc' = "body"
    /\ UNCHANGED <<method, life_result, lcalls>>
    /\ UNCHANGED lifeRest

\* context.new_page() raises: neither page attribute is assigned.
LifeNewPageFails ==
    /\ lpc = "new_page"
    /\ lpc' = "except"
    /\ UNCHANGED <<method, opened, self_page, browser_page, life_result, lcalls>>
    /\ UNCHANGED lifeRest

\* The rest of the try block: it returns the method's record or raises; it
\* opens and closes no page.
LifeBody ==
    /\ lpc = "body"
    /\ \E ok \in BOOLEAN :
          IF ok
          THEN /\ life_result' = [t |-> "rec", cls |-> method, v |-> <<>>]
               /\ lpc' = "finally"
          ELSE /\ lpc' = "except"
               /\ UNCHANGED life_result
    /\ UNCHANGED <<method, opened, self_page, browser_page, lcalls>>
    /\ UNCHANGED lifeRest

\* except Exception: return None.
LifeExcept ==
    /\ lpc = "except"
    /\ life_result' = NoneV
    /\ lpc' = "finally"
    /\ UNCHANGED <<method, opened, self_page, browser_page, lcalls>>
    /\ UNCHANGED lifeRest

\* close() is called on page k by closer.
ClosePage(pages, k, closer) ==
    IF k = 0 THEN pages
    ELSE [pages EXCEPT ![k].closes = Append(@, closer)]

\* finally: if self.page: await self.page.close(); then the call returns.
LifeFinally ==
    /\ lpc = "finally"
    /\ opened' = ClosePage(opened, self_page, lcalls)
    /\ lpc' = "ready"
    /\ UNCHANGED <<method, self_page, browser_page, life_result, lcalls>>
    /\ UNCHANGED lifeRest

\* main's finally: parser.close(), which is PlaywrightBrowser.close():
\* if self.page: await self.page.close(), then the context and the browser.
LifeClose ==
    /\ lpc = "ready"
    /\ opened' = ClosePage(opened, browser_page, ParserClose)
    /\ lpc' = "closed"
    /\ UNCHANGED <<method, self_page, browser_page, life_result, lcalls>>
    /\ UNCHANGED lifeRest

LifeNext ==
    \/ LifeCall
    \/ LifeNewPage
    \/ LifeNewPageFails
    \/ LifeBody
    \/ LifeExcept
    \/ LifeFinally
    \/ LifeClose

LifeSpec == LifeInit /\ [][LifeNext]_vars

\* C22: once a parse_* call has returned, every page opened so far has been
\* closed exactly once; and close() is only ever called on a page by the call
\* that opened it, and never on a page that is closed already.
C22_PageLifetime ==
    /\ lpc \in {"ready", "closed"} =>
          \A k \in 1..Len(opened) : Len(opened[k].closes) = 1
    /\ \A k \in 1..Len(opened) :
          /\ Len(opened[k].closes) <= 1
          /\ \A c \in 1..Len(opened[k].closes) : opened[k].closes[c] = opened[k].by

====
